---- MODULE Spec2Model ----
(***************************************************************************)
(* Model of server.py: the dimension grouper / deduplicator, the balloon   *)
(* placer and the revision store behind the /upload, /add-manual-balloon,  *)
(* /rebuild-balloons and /undo-pdf routes.                                 *)
(*                                                                         *)
(* Numbers.  Page coordinates are floats in the program.  Here every       *)
(* coordinate is an integer count of hundredths of a PDF unit, so 26 units *)
(* is 2600.  The ring offsets 26*cos(a), 26*sin(a) are rounded to that     *)
(* resolution.  A text value is the sequence of its lines, so joining two  *)
(* values with a newline is the concatenation of the two sequences.        *)
(***************************************************************************)
EXTENDS Integers, Sequences, FiniteSets, TLC

VARIABLES PDF_HISTORY, USED_POSITIONS, ballooned, temp, request, response, budget

vars == <<PDF_HISTORY, USED_POSITIONS, ballooned, temp, request, response, budget>>

\* ------------------------------------------------------------------------
\* Program constants (hundredths of a unit, except HistoryCap)
\* ------------------------------------------------------------------------
VERTICAL_Y_TOLERANCE == 600
MERGE_X_THRESHOLD == 1000
Y_THRESHOLD == 300
X_GAP_MAX == 2000
X_THRESHOLD == 600
Y_GAP_MAX == 2000
OFFSET == 2600
MinSeparation == 2200
Margin == 1500
HistoryCap == 50

\* ------------------------------------------------------------------------
\* Bounds of the model
\* ------------------------------------------------------------------------
\* handler calls explored from the initial state of Spec
MaxOps == 4
\* handler calls explored from the initial states of SpecCap
CapOps == 2
\* handler calls explored from the initial states of SpecPlace
PlaceOps == 2
\* longest anchor list of a rebuild in SpecPlace
MaxItems == 3
\* longest candidate list handed to a grouping pass in SpecGroup
MaxLen == 3

\* ------------------------------------------------------------------------
\* Arithmetic helpers (abs, min, max of Python)
\* ------------------------------------------------------------------------
Abs(v) == IF v < 0 THEN -v ELSE v

Min(a, b) == IF b < a THEN b ELSE a

Max(a, b) == IF b > a THEN b ELSE a

\* ------------------------------------------------------------------------
\* sorted(items, key=...): a stable sort on a tuple of integers
\* ------------------------------------------------------------------------
RECURSIVE TupleLess(_, _)
TupleLess(k1, k2) ==
    IF k1 = <<>> \/ k2 = <<>> THEN FALSE
    ELSE IF Head(k1) # Head(k2) THEN Head(k1) < Head(k2)
    ELSE TupleLess(Tail(k1), Tail(k2))

\* position of element i in the sorted output: elements with a smaller key, or
\* an equal key and an earlier place in the input, come first
SortRank(keys, i) ==
    1 + Cardinality({j \in DOMAIN keys :
                        \/ TupleLess(keys[j], keys[i])
                        \/ (keys[j] = keys[i] /\ j < i)})

Sorted(items, keys) ==
    [r \in DOMAIN items |-> items[CHOOSE i \in DOMAIN items : SortRank(keys, i) = r]]

\* ------------------------------------------------------------------------
\* A dimension candidate or group is a record
\*   [page, value, x, y, is_table]
\* with value the sequence of the lines of its text.
\* ------------------------------------------------------------------------

\* ---- remove_vertical_close_duplicates ----------------------------------
DedupKey(it) == <<it.page, it.y>>

\* the inner loop over j: the indices consumed by a = items[i]
RECURSIVE DedupScan(_, _, _, _)
DedupScan(items, i, j, consumed) ==
    IF j > Len(items) THEN consumed
    ELSE IF items[j].page # items[i].page THEN consumed
    ELSE IF Abs(items[j].y - items[i].y) > VERTICAL_Y_TOLERANCE
         THEN DedupScan(items, i, j + 1, consumed)
    ELSE IF Abs(items[j].x - items[i].x) <= MERGE_X_THRESHOLD
         THEN DedupScan(items, i, j + 1, consumed \cup {j})
    ELSE DedupScan(items, i, j + 1, consumed)

\* the outer loop with the consumed items emitted as well
RECURSIVE DedupLoopKeepsConsumed(_, _, _, _)
DedupLoopKeepsConsumed(items, i, consumed, result) ==
    IF i > Len(items) THEN result
    ELSE DedupLoopKeepsConsumed(items, i + 1, DedupScan(items, i, i + 1, consumed),
                                Append(result, items[i]))

\* the outer loop over i
RECURSIVE DedupLoop(_, _, _, _)
DedupLoop(items, i, consumed, result) ==
    IF i > Len(items) THEN result
    ELSE IF i \in consumed THEN DedupLoop(items, i + 1, consumed, result)
    ELSE DedupLoop(items, i + 1, DedupScan(items, i, i + 1, consumed),
                   Append(result, items[i]))

remove_vertical_close_duplicates(items) ==
    DedupLoop(Sorted(items, [k \in DOMAIN items |-> DedupKey(items[k])]), 1, {}, <<>>)

\* ---- group_close_dimensions --------------------------------------------
CloseKey(it) == <<it.page, it.y, it.x>>

\* the inner loop over j: best_j, with 0 for None
RECURSIVE CloseScan(_, _, _, _, _, _)
CloseScan(items, i, j, used, best_j, best_gap) ==
    IF j > Len(items) THEN best_j
    ELSE IF j \in used THEN CloseScan(items, i, j + 1, used, best_j, best_gap)
    ELSE IF items[i].page # items[j].page THEN best_j
    ELSE IF Abs(items[i].y - items[j].y) > Y_THRESHOLD
         THEN CloseScan(items, i, j + 1, used, best_j, best_gap)
    ELSE IF items[i].is_table \/ items[j].is_table
         THEN CloseScan(items, i, j + 1, used, best_j, best_gap)
    ELSE LET gap == items[j].x - items[i].x
         IN  IF 0 < gap /\ gap <= X_GAP_MAX /\ gap < best_gap
             THEN CloseScan(items, i, j + 1, used, j, gap)
             ELSE CloseScan(items, i, j + 1, used, best_j, best_gap)

\* the merged entry of a and b; the sum of the two x is even for every input
\* the model draws, so the integer division is the exact mean
CloseMerge(a, b) ==
    [page |-> a.page, value |-> a.value \o b.value, x |-> (a.x + b.x) \div 2,
     y |-> a.y, is_table |-> FALSE]

RECURSIVE CloseLoop(_, _, _, _)
CloseLoop(items, i, used, grouped) ==
    IF i > Len(items) THEN grouped
    ELSE IF i \in used THEN CloseLoop(items, i + 1, used, grouped)
    ELSE LET best_j == CloseScan(items, i, i + 1, used, 0, X_GAP_MAX + 1)
         IN  IF best_j # 0
             THEN CloseLoop(items, i + 1, used \cup {i, best_j},
                            Append(grouped, CloseMerge(items[i], items[best_j])))
             ELSE CloseLoop(items, i + 1, used \cup {i}, Append(grouped, items[i]))

group_close_dimensions(items) ==
    CloseLoop(Sorted(items, [k \in DOMAIN items |-> CloseKey(items[k])]), 1, {}, <<>>)

\* ---- group_vertical_dimensions -----------------------------------------
VertKey(it) == <<it.page, it.x, it.y>>

\* "\n".join(v["value"] for v in stack)
RECURSIVE JoinValues(_)
JoinValues(stack) ==
    IF stack = <<>> THEN <<>> ELSE Head(stack).value \o JoinValues(Tail(stack))

\* the inner loop over j: the stack and the used set it leaves
RECURSIVE VertScan(_, _, _, _, _)
VertScan(items, i, j, used, stack) ==
    IF j > Len(items) THEN [used |-> used, stack |-> stack]
    ELSE IF j \in used THEN VertScan(items, i, j + 1, used, stack)
    ELSE IF items[i].page # items[j].page THEN [used |-> used, stack |-> stack]
    ELSE IF Abs(items[i].x - items[j].x) > X_THRESHOLD
         THEN VertScan(items, i, j + 1, used, stack)
    ELSE IF Abs(items[j].y - stack[Len(stack)].y) > Y_GAP_MAX
         THEN VertScan(items, i, j + 1, used, stack)
    ELSE IF items[i].is_table \/ items[j].is_table
         THEN VertScan(items, i, j + 1, used, stack)
    ELSE VertScan(items, i, j + 1, used \cup {j}, Append(stack, items[j]))

RECURSIVE VertLoop(_, _, _, _)
VertLoop(items, i, used, grouped) ==
    IF i > Len(items) THEN grouped
    ELSE IF i \in used THEN VertLoop(items, i + 1, used, grouped)
    ELSE LET r == VertScan(items, i, i + 1, used \cup {i}, <<items[i]>>)
         IN  IF Len(r.stack) > 1
             THEN VertLoop(items, i + 1, r.used,
                           Append(grouped,
                                  [page |-> items[i].page, value |-> JoinValues(r.stack),
                                   x |-> items[i].x, y |-> r.stack[1].y,
                                   is_table |-> FALSE]))
             ELSE VertLoop(items, i + 1, r.used, Append(grouped, items[i]))

group_vertical_dimensions(items) ==
    VertLoop(Sorted(items, [k \in DOMAIN items |-> VertKey(items[k])]), 1, {}, <<>>)

\* ---- extract_numbers: the three passes over the classified spans -------
\* a file is [pages, raw_spans]: the page sizes and the spans that the
\* classifier loop of extract_numbers keeps
extract_numbers(file) ==
    remove_vertical_close_duplicates(
        group_vertical_dimensions(group_close_dimensions(file.raw_spans)))

\* ------------------------------------------------------------------------
\* Balloon placement (the ring scan, the fallback and the clamp of
\* balloon_pdf and add_manual_balloon, which are the same statements)
\* ------------------------------------------------------------------------
angles == <<0, 30, -30, 45, -45, 60, -60, 90, -90>>

\* OFFSET * math.cos(math.radians(ang)), to a hundredth
OffsetCos(ang) ==
    CASE Abs(ang) = 0 -> OFFSET
      [] Abs(ang) = 30 -> 2252
      [] Abs(ang) = 45 -> 1838
      [] Abs(ang) = 60 -> 1300
      [] Abs(ang) = 90 -> 0

\* OFFSET * math.sin(math.radians(ang)), to a hundredth
OffsetSin(ang) ==
    (IF ang < 0 THEN -1 ELSE 1) *
    (CASE Abs(ang) = 0 -> 0
       [] Abs(ang) = 30 -> 1300
       [] Abs(ang) = 45 -> 1838
       [] Abs(ang) = 60 -> 2252
       [] Abs(ang) = 90 -> OFFSET)

\* math.hypot(bx - ux, by - uy) >= 22, on squares; a leg of 22 or more
\* decides it without squaring
Separated(b, u) ==
    LET dx == Abs(b[1] - u[1])
        dy == Abs(b[2] - u[2])
    IN  \/ dx >= MinSeparation
        \/ dy >= MinSeparation
        \/ dx * dx + dy * dy >= MinSeparation * MinSeparation

\* angles[start:] + angles[:start] with start = idx % len(angles)
Rotated(idx) ==
    LET start == idx % Len(angles)
    IN  SubSeq(angles, start + 1, Len(angles)) \o SubSeq(angles, 1, start)

Candidate(tx, ty, ang) == <<tx + OffsetCos(ang), ty + OffsetSin(ang)>>

\* all(hypot(...) >= 22 for ux, uy in used_positions)
Free(b, used_positions) ==
    \A k \in DOMAIN used_positions : Separated(b, used_positions[k])

\* the for loop over the rotated ring: the first free candidate, and
\* (tx + OFFSET, ty) when the loop ends without a break
RECURSIVE RingScan(_, _, _, _)
RingScan(tx, ty, ring, used_positions) ==
    IF ring = <<>> THEN <<tx + OFFSET, ty>>
    ELSE IF Free(Candidate(tx, ty, Head(ring)), used_positions)
         THEN Candidate(tx, ty, Head(ring))
    ELSE RingScan(tx, ty, Tail(ring), used_positions)

\* a clamp that forgets the lower edge
ClampUpperOnly(best, size) == Min(best, size - Margin)

\* max(15, min(best, size - 15))
Clamp(best, size) == Max(Margin, Min(best, size - Margin))

\* the center stored for mark idx at anchor (tx, ty) on a page of pw x ph
PlaceCenter(tx, ty, idx, used_positions, pw, ph) ==
    LET best == RingScan(tx, ty, Rotated(idx), used_positions)
    IN  <<Clamp(best[1], pw), Clamp(best[2], ph)>>

\* ------------------------------------------------------------------------
\* Files, documents and the USED_POSITIONS dict
\* ------------------------------------------------------------------------
\* a PDF file: its page sizes and the spans the classifier keeps
NoFile == [present |-> FALSE, pages |-> <<>>, raw_spans |-> <<>>]

\* ballooned.pdf: the page sizes and the marks drawn on them, each mark
\* [index, page, anchor, center]; exists is os.path.exists("ballooned.pdf")
NoDocument == [exists |-> FALSE, pages |-> <<>>, marks |-> <<>>]

\* USED_POSITIONS is a function from the page numbers that are keys of the
\* dict to the list of centers; <<>> is the empty dict
UsedOf(used, page) == IF page \in DOMAIN used THEN used[page] ELSE <<>>

\* USED_POSITIONS.setdefault(page, []) followed by USED_POSITIONS[page].append(c)
UsedAppend(used, page, c) ==
    [q \in DOMAIN used \cup {page} |-> IF q = page THEN Append(UsedOf(used, page), c)
                                        ELSE used[q]]

\* doc[page_no] raises for a page number past the last page
HasPage(pages, page_no) == page_no \in 0 .. (Len(pages) - 1)

\* ------------------------------------------------------------------------
\* balloon_pdf: the loop over items; ok is FALSE when doc[item["page"]]
\* raised, which leaves USED_POSITIONS as the loop had filled it
\* ------------------------------------------------------------------------
RECURSIVE BalloonLoop(_, _, _, _, _)
BalloonLoop(pages, items, idx, used, marks) ==
    IF items = <<>> THEN [ok |-> TRUE, used |-> used, marks |-> marks]
    ELSE LET item == Head(items)
         IN  IF ~HasPage(pages, item.page)
             THEN [ok |-> FALSE, used |-> used, marks |-> marks]
             ELSE LET c == PlaceCenter(item.x, item.y, idx, UsedOf(used, item.page),
                                       pages[item.page + 1].w, pages[item.page + 1].h)
                  IN  BalloonLoop(pages, Tail(items), idx + 1,
                                  UsedAppend(used, item.page, c),
                                  Append(marks, [index |-> idx, page |-> item.page,
                                                 anchor |-> <<item.x, item.y>>,
                                                 center |-> c]))

balloon_pdf(input, items) == BalloonLoop(input.pages, items, 1, <<>>, <<>>)

\* ------------------------------------------------------------------------
\* The revision store
\* ------------------------------------------------------------------------
\* a history that evicts the newest snapshot instead of the oldest
SnapshotPopsNewest(history, bytes) ==
    IF Len(history) + 1 > HistoryCap THEN history ELSE Append(history, bytes)

\* save_pdf_snapshot: append, then pop(0) when longer than the cap
save_pdf_snapshot(history, bytes) ==
    LET h == Append(history, bytes)
    IN  IF Len(h) > HistoryCap THEN Tail(h) ELSE h

\* ------------------------------------------------------------------------
\* The route handlers, each a function of the server state
\*   [PDF_HISTORY, USED_POSITIONS, ballooned, temp, response]
\* and of the request, giving the state the handler leaves, response included
\* ------------------------------------------------------------------------
Reply(status, code) == [status |-> status, code |-> code]

Fresh ==
    [PDF_HISTORY |-> <<>>, USED_POSITIONS |-> <<>>, ballooned |-> NoDocument,
     temp |-> NoFile, response |-> Reply("none", 0)]

\* POST /upload
upload(s, file) ==
    IF ~file.present THEN [s EXCEPT !.response = Reply("No file uploaded", 400)]
    ELSE LET numbers == extract_numbers(file)
             r == balloon_pdf(file, numbers)
             doc == [exists |-> TRUE, pages |-> file.pages, marks |-> r.marks]
         IN  [PDF_HISTORY |-> save_pdf_snapshot(s.PDF_HISTORY, doc),
              USED_POSITIONS |-> r.used, ballooned |-> doc, temp |-> file,
              response |-> Reply("success", 200)]

\* POST /add-manual-balloon; form is [x_pct, y_pct, page, index], the two
\* fractions in hundredths (50 is 0.5); every page size of the model is a
\* multiple of 100, so x_pct * width is exact
add_manual_balloon(s, form) ==
    IF ~s.ballooned.exists
    THEN [s EXCEPT !.response = Reply("ballooned.pdf not found", 400)]
    ELSE IF ~HasPage(s.ballooned.pages, form.page)
    THEN [s EXCEPT !.response = Reply("page not in document", 500)]
    ELSE LET pg == s.ballooned.pages[form.page + 1]
             x == (form.x_pct * pg.w) \div 100
             y == (form.y_pct * pg.h) \div 100
             c == PlaceCenter(x, y, form.index, UsedOf(s.USED_POSITIONS, form.page),
                              pg.w, pg.h)
             doc == [s.ballooned EXCEPT
                       !.marks = Append(@, [index |-> form.index, page |-> form.page,
                                            anchor |-> <<x, y>>, center |-> c])]
         IN  [s EXCEPT !.USED_POSITIONS = UsedAppend(@, form.page, c),
                       !.ballooned = doc,
                       !.PDF_HISTORY = save_pdf_snapshot(@, doc),
                       !.response = Reply("ok", 200)]

\* POST /rebuild-balloons
rebuild_balloons(s, items) ==
    IF ~s.temp.present THEN [s EXCEPT !.response = Reply("Original PDF missing", 400)]
    ELSE LET r == balloon_pdf(s.temp, items)
             doc == [exists |-> TRUE, pages |-> s.temp.pages, marks |-> r.marks]
         IN  IF r.ok
             THEN [s EXCEPT !.USED_POSITIONS = r.used,
                            !.ballooned = doc,
                            !.PDF_HISTORY = save_pdf_snapshot(@, doc),
                            !.response = Reply("rebuilt", 200)]
             ELSE [s EXCEPT !.USED_POSITIONS = r.used,
                            !.response = Reply("page not in document", 500)]

\* an undo that pops the history and leaves ballooned.pdf as it is
undo_pdf_keeps_file(s) ==
    IF Len(s.PDF_HISTORY) < 2 THEN [s EXCEPT !.response = Reply("No undo available", 400)]
    ELSE [s EXCEPT !.PDF_HISTORY = SubSeq(@, 1, Len(@) - 1),
                   !.response = Reply("undone", 200)]

\* POST /undo-pdf
undo_pdf(s) ==
    IF Len(s.PDF_HISTORY) < 2 THEN [s EXCEPT !.response = Reply("No undo available", 400)]
    ELSE LET h == SubSeq(s.PDF_HISTORY, 1, Len(s.PDF_HISTORY) - 1)
         IN  [s EXCEPT !.PDF_HISTORY = h,
                       !.ballooned = h[Len(h)],
                       !.response = Reply("undone", 200)]

\* ------------------------------------------------------------------------
\* Requests the model sends
\* ------------------------------------------------------------------------
Span(value, x, y) == [page |-> 0, value |-> <<value>>, x |-> x, y |-> y, is_table |-> FALSE]

\* a one-page drawing of 100 x 100 units with three spans, two of them a
\* horizontal run
FileA ==
    [present |-> TRUE, pages |-> <<[w |-> 10000, h |-> 10000]>>,
     raw_spans |-> <<Span("1.5", 2000, 2000), Span("0.1", 3000, 2000),
                     Span("R5", 6000, 6000)>>]

\* a two-page drawing, the second page 40 x 40 units, one span on each page
FileB ==
    [present |-> TRUE, pages |-> <<[w |-> 10000, h |-> 10000], [w |-> 4000, h |-> 4000]>>,
     raw_spans |-> <<Span("2.25", 5000, 5000),
                     [page |-> 1, value |-> <<"3/8">>, x |-> 2000, y |-> 2000,
                      is_table |-> FALSE]>>]

UploadFiles == {FileA, FileB, NoFile}

ManualForms ==
    {[x_pct |-> 50, y_pct |-> 50, page |-> 0, index |-> 3],
     [x_pct |-> 50, y_pct |-> 50, page |-> 0, index |-> 1],
     [x_pct |-> 150, y_pct |-> 50, page |-> 0, index |-> 3],
     [x_pct |-> 50, y_pct |-> 50, page |-> 1, index |-> 3]}

RebuildLists ==
    {<<Span("a", 9500, 2000), Span("b", 9500, 6500)>>,
     <<Span("a", 5000, 5000)>>}

\* ------------------------------------------------------------------------
\* The server as a state machine: one action per route
\* ------------------------------------------------------------------------
Server ==
    [PDF_HISTORY |-> PDF_HISTORY, USED_POSITIONS |-> USED_POSITIONS,
     ballooned |-> ballooned, temp |-> temp, response |-> response]

Load(s) ==
    /\ PDF_HISTORY = s.PDF_HISTORY
    /\ USED_POSITIONS = s.USED_POSITIONS
    /\ ballooned = s.ballooned
    /\ temp = s.temp
    /\ response = s.response

\* one request handled to completion
Handle(req, s) ==
    /\ budget' = budget - 1
    /\ request' = req
    /\ PDF_HISTORY' = s.PDF_HISTORY
    /\ USED_POSITIONS' = s.USED_POSITIONS
    /\ ballooned' = s.ballooned
    /\ temp' = s.temp
    /\ response' = s.response

Upload ==
    \E file \in UploadFiles :
        /\ budget > 0
        /\ Handle([op |-> "upload", file |-> file], upload(Server, file))

AddManualBalloon ==
    \E form \in ManualForms :
        /\ budget > 0
        /\ Handle([op |-> "manual", form |-> form], add_manual_balloon(Server, form))

RebuildBalloons ==
    \E items \in RebuildLists :
        /\ budget > 0
        /\ Handle([op |-> "rebuild", items |-> items], rebuild_balloons(Server, items))

UndoPdf ==
    /\ budget > 0
    /\ Handle([op |-> "undo"], undo_pdf(Server))

Init ==
    /\ Load(Fresh)
    /\ request = [op |-> "start"]
    /\ budget = MaxOps

Next == Upload \/ AddManualBalloon \/ RebuildBalloons \/ UndoPdf

Spec == Init /\ [][Next]_vars

\* ------------------------------------------------------------------------
\* SpecCap: the server with its history at the cap.  The initial states are
\* the states an upload of FileA and then 48 or 49 manual additions, numbered
\* on from the two balloons of the upload, leave: 49 or 50 snapshots, no two
\* of them equal.
\* ------------------------------------------------------------------------
FillForm(k) == [x_pct |-> 50, y_pct |-> 50, page |-> 0, index |-> k + 1]

\* the state after manual additions k .. n made in state s; the test of the
\* response reads s before the next addition is made
RECURSIVE FillFrom(_, _, _)
FillFrom(s, k, n) ==
    IF s.response.code = 200 /\ k <= n
    THEN FillFrom(add_manual_balloon(s, FillForm(k)), k + 1, n)
    ELSE s

\* the state after the upload and k - 1 manual additions
Filled(k) == FillFrom(upload(Fresh, FileA), 2, k)

InitCap ==
    \E k \in {HistoryCap - 1, HistoryCap} :
        /\ Load(Filled(k))
        /\ request = [op |-> "manual", form |-> FillForm(k)]
        /\ budget = CapOps

SpecCap == InitCap /\ [][Next]_vars

\* ------------------------------------------------------------------------
\* SpecPlace: the placer on any anchor list.  The initial states are the
\* states an upload of a blank one-page drawing and then one rebuild with a
\* caller-supplied anchor list leave; manual additions follow.
\* ------------------------------------------------------------------------
BlankFile(side) == [present |-> TRUE, pages |-> <<[w |-> side, h |-> side]>>, raw_spans |-> <<>>]

\* page sides of 20, 40 and 100 units
PlaceSides == {2000, 4000, 10000}

PlaceAnchors ==
    {Span("d", 2000, 2000), Span("d", 5000, 2000), Span("d", 9500, 2000),
     Span("d", 9500, 6500)}

PlaceLists == UNION {[1 .. n -> PlaceAnchors] : n \in 0 .. MaxItems}

PlaceForms ==
    {[x_pct |-> 50, y_pct |-> 50, page |-> 0, index |-> 3],
     [x_pct |-> 50, y_pct |-> 50, page |-> 0, index |-> 8],
     [x_pct |-> 150, y_pct |-> 50, page |-> 0, index |-> 3],
     [x_pct |-> 95, y_pct |-> -10, page |-> 0, index |-> 7]}

InitPlace ==
    \E side \in PlaceSides, items \in PlaceLists :
        /\ Load(rebuild_balloons(upload(Fresh, BlankFile(side)), items))
        /\ request = [op |-> "rebuild", items |-> items]
        /\ budget = PlaceOps

PlaceManual ==
    \E form \in PlaceForms :
        /\ budget > 0
        /\ Handle([op |-> "manual", form |-> form], add_manual_balloon(Server, form))

NextPlace == PlaceManual

SpecPlace == InitPlace /\ [][NextPlace]_vars

\* ------------------------------------------------------------------------
\* SpecGroup: the three grouping passes as pure functions.  The initial
\* states draw the candidate list; one step applies one pass to it, and a
\* further step applies group_close_dimensions to its own output.
\* ------------------------------------------------------------------------
Names == <<"v1", "v2", "v3", "v4", "v5">>

GroupCells ==
    {[page |-> 0, x |-> x, y |-> y, is_table |-> FALSE] :
        x \in {0, 500, 1500}, y \in {1000, 1300, 1800, 4000}}
    \cup {[page |-> 1, x |-> 0, y |-> 1000, is_table |-> FALSE],
          [page |-> 0, x |-> 500, y |-> 1000, is_table |-> TRUE]}

\* the candidate in cell c whose text is the name of its place in the list
Cand(c, i) ==
    [page |-> c.page, value |-> <<Names[i]>>, x |-> c.x, y |-> c.y, is_table |-> c.is_table]

GroupInputs ==
    UNION {{[i \in 1 .. n |-> Cand(cs[i], i)] : cs \in [1 .. n -> GroupCells]} :
              n \in 0 .. MaxLen}

InitGroup ==
    /\ \E items \in GroupInputs : request = [op |-> "input", items |-> items]
    /\ Load(Fresh)
    /\ budget = 0

\* one call of a pass on req.items
Call(op, in, out) ==
    /\ request' = [op |-> op, items |-> in]
    /\ response' = [status |-> "ok", code |-> 200, items |-> out]
    /\ UNCHANGED <<PDF_HISTORY, USED_POSITIONS, ballooned, temp, budget>>

RunClose ==
    /\ request.op = "input"
    /\ Call("group_close_dimensions", request.items,
            group_close_dimensions(request.items))

RunCloseAgain ==
    /\ request.op = "group_close_dimensions"
    /\ Call("group_close_dimensions again", response.items,
            group_close_dimensions(response.items))

RunVertical ==
    /\ request.op = "input"
    /\ Call("group_vertical_dimensions", request.items,
            group_vertical_dimensions(request.items))

RunDedup ==
    /\ request.op = "input"
    /\ Call("remove_vertical_close_duplicates", request.items,
            remove_vertical_close_duplicates(request.items))

NextGroup == RunClose \/ RunCloseAgain \/ RunVertical \/ RunDedup

SpecGroup == InitGroup /\ [][NextGroup]_vars

\* ------------------------------------------------------------------------
\* Readings of the state used by the properties
\* ------------------------------------------------------------------------
Range(f) == {f[k] : k \in DOMAIN f}

Last(q) == q[Len(q)]

Front(q) == SubSeq(q, 1, Len(q) - 1)

\* the request just handled was answered with an error
Failed == response.code >= 400

\* the centers of the marks drawn on a page of a document
RenderedCenters(doc, page) ==
    {doc.marks[k].center : k \in {m \in DOMAIN doc.marks : doc.marks[m].page = page}}

\* every page number that is a key of USED_POSITIONS or a page of ballooned.pdf
KnownPages == DOMAIN USED_POSITIONS \cup (0 .. (Len(ballooned.pages) - 1))

\* ------------------------------------------------------------------------
\* C1  Undo.  A call of undo_pdf on a history of two or more snapshots
\* answers "undone", removes only the newest snapshot and makes ballooned.pdf
\* equal to the snapshot that is now last; on a history of fewer than two it
\* answers with an error and changes neither the history nor ballooned.pdf.
\* ------------------------------------------------------------------------
C1_Undo ==
    [][request'.op = "undo" =>
         IF Len(PDF_HISTORY) >= 2
         THEN /\ response'.status = "undone"
              /\ PDF_HISTORY' = Front(PDF_HISTORY)
              /\ ballooned' = Last(PDF_HISTORY')
         ELSE /\ response'.code >= 400
              /\ PDF_HISTORY' = PDF_HISTORY
              /\ ballooned' = ballooned]_vars

\* three mutating calls produced S1, S2, S3 and one undo left [S1, S2] with
\* the document equal to S2, S2 being different from S1
C1_Witness ==
    /\ request.op = "undo"
    /\ response.status = "undone"
    /\ budget = MaxOps - 4
    /\ Len(PDF_HISTORY) = 2
    /\ ballooned = PDF_HISTORY[2]
    /\ PDF_HISTORY[1] # PDF_HISTORY[2]

\* ------------------------------------------------------------------------
\* C3  PlacementState is the rendered marks.  For every page, the centers
\* in USED_POSITIONS are exactly the centers of the marks drawn on that page
\* of ballooned.pdf.
\* ------------------------------------------------------------------------
C3_UsedIsRendered ==
    \A page \in KnownPages :
        Range(UsedOf(USED_POSITIONS, page)) = RenderedCenters(ballooned, page)

\* ------------------------------------------------------------------------
\* C4  Unique indices.  No two marks drawn on ballooned.pdf carry the same
\* index.
\* ------------------------------------------------------------------------
C4_UniqueIndex ==
    \A i, j \in DOMAIN ballooned.marks :
        i # j => ballooned.marks[i].index # ballooned.marks[j].index

\* ------------------------------------------------------------------------
\* C6  Placement separation.  After a full pass (upload or rebuild) over
\* anchors that are, page by page, more than 44 units apart from one another,
\* no two centers stored in USED_POSITIONS for one page are closer than 22
\* units.
\* ------------------------------------------------------------------------
\* more than twice the minimum separation apart
FarApart(a, b) ==
    LET dx == Abs(a[1] - b[1])
        dy == Abs(a[2] - b[2])
    IN  \/ dx > 2 * MinSeparation
        \/ dy > 2 * MinSeparation
        \/ dx * dx + dy * dy > (2 * MinSeparation) * (2 * MinSeparation)

AnchorsFarApart(doc) ==
    \A i, j \in DOMAIN doc.marks :
        (i # j /\ doc.marks[i].page = doc.marks[j].page)
            => FarApart(doc.marks[i].anchor, doc.marks[j].anchor)

C6_Separation ==
    (/\ request.op \in {"upload", "rebuild"}
     /\ ~Failed
     /\ AnchorsFarApart(ballooned))
        => \A page \in DOMAIN USED_POSITIONS :
               \A i, j \in DOMAIN USED_POSITIONS[page] :
                   i # j => Separated(USED_POSITIONS[page][i], USED_POSITIONS[page][j])

\* ------------------------------------------------------------------------
\* C7  Invalid anchors are rejected.  A manual addition whose x_pct or y_pct
\* lies outside [0, 1] is answered with an error and leaves USED_POSITIONS,
\* ballooned.pdf and the history as they were.
\* ------------------------------------------------------------------------
OutOfPage(form) ==
    \/ form.x_pct < 0 \/ form.x_pct > 100
    \/ form.y_pct < 0 \/ form.y_pct > 100

C7_InvalidAnchorRejected ==
    [][(request'.op = "manual" /\ OutOfPage(request'.form)) =>
          /\ response'.code >= 400
          /\ UNCHANGED <<USED_POSITIONS, ballooned, PDF_HISTORY>>]_vars

\* ------------------------------------------------------------------------
\* C2  History cap.  The history never holds more than 50 snapshots, and
\* every successful upload, manual addition and rebuild appends the bytes of
\* ballooned.pdf as the newest snapshot, evicting exactly the oldest one when
\* the history already holds 50 and nothing otherwise.
\* ------------------------------------------------------------------------
C2_HistoryCap ==
    /\ [](Len(PDF_HISTORY) <= HistoryCap)
    /\ [][(request'.op \in {"upload", "manual", "rebuild"} /\ response'.code < 400) =>
             IF Len(PDF_HISTORY) = HistoryCap
             THEN PDF_HISTORY' = Append(Tail(PDF_HISTORY), ballooned')
             ELSE PDF_HISTORY' = Append(PDF_HISTORY, ballooned')]_vars

\* a rebuild on a full history: the upload's snapshot, the oldest, is gone,
\* the second oldest is now first and the rebuilt document is last
C2_Witness ==
    /\ request.op = "rebuild"
    /\ ~Failed
    /\ Len(PDF_HISTORY) = HistoryCap
    /\ PDF_HISTORY[1] = Filled(2).ballooned
    /\ Last(PDF_HISTORY) = ballooned

\* ------------------------------------------------------------------------
\* C5  Placement bounds.
\* ------------------------------------------------------------------------
PageOf(page) == ballooned.pages[page + 1]

InBounds(c, pg) ==
    /\ Margin <= c[1] /\ c[1] <= pg.w - Margin
    /\ Margin <= c[2] /\ c[2] <= pg.h - Margin

\* C5 as stated: on any page, every center stored in USED_POSITIONS lies in
\* [15, width - 15] x [15, height - 15]
C5_BoundsAnyPage ==
    \A page \in DOMAIN USED_POSITIONS :
        \A k \in DOMAIN USED_POSITIONS[page] :
            InBounds(USED_POSITIONS[page][k], PageOf(page))

\* C5 as amended: on any page at least 30 units wide and 30 units high, every
\* center stored in USED_POSITIONS by a full pass or a manual addition, a
\* fallback placement included, lies in [15, width - 15] x [15, height - 15]
C5_Bounds ==
    \A page \in DOMAIN USED_POSITIONS :
        (PageOf(page).w >= 2 * Margin /\ PageOf(page).h >= 2 * Margin) =>
            \A k \in DOMAIN USED_POSITIONS[page] :
                InBounds(USED_POSITIONS[page][k], PageOf(page))

\* a manual addition on a page of at least 30 x 30 units where every
\* candidate of the ring was taken, so the fallback was placed, and the
\* clamp moved it
C5_Witness ==
    /\ request.op = "manual"
    /\ ~Failed
    /\ LET form == request.form
           pg == PageOf(form.page)
           x == (form.x_pct * pg.w) \div 100
           y == (form.y_pct * pg.h) \div 100
           before == Front(USED_POSITIONS[form.page])
       IN  /\ pg.w >= 2 * Margin /\ pg.h >= 2 * Margin
           /\ \A k \in DOMAIN angles : ~Free(Candidate(x, y, angles[k]), before)
           /\ Last(USED_POSITIONS[form.page]) # <<x + OFFSET, y>>
           /\ InBounds(Last(USED_POSITIONS[form.page]), pg)

\* ------------------------------------------------------------------------
\* C8  Duplicate suppression.  The output of
\* remove_vertical_close_duplicates holds no two items of one page with
\* |y difference| <= 6 and |x difference| <= 10; its items are input items,
\* unmodified, in (page, y) order; and every input item it drops is within
\* those thresholds of a kept item that does not come after it in that order.
\* ------------------------------------------------------------------------
NearDuplicates(a, b) ==
    /\ a.page = b.page
    /\ Abs(a.y - b.y) <= VERTICAL_Y_TOLERANCE
    /\ Abs(a.x - b.x) <= MERGE_X_THRESHOLD

NotAfter(a, b) == a.page < b.page \/ (a.page = b.page /\ a.y <= b.y)

\* the ways to read out as a selection of distinct input items
Selections(in, out) ==
    {f \in [DOMAIN out -> DOMAIN in] :
        /\ \A i, j \in DOMAIN out : i # j => f[i] # f[j]
        /\ \A i \in DOMAIN out : out[i] = in[f[i]]}

C8_Dedup ==
    request.op = "remove_vertical_close_duplicates" =>
        LET in == request.items
            out == response.items
        IN  /\ \A i, j \in DOMAIN out : i # j => ~NearDuplicates(out[i], out[j])
            /\ \A i, j \in DOMAIN out : i < j => NotAfter(out[i], out[j])
            /\ \E f \in Selections(in, out) :
                   \A d \in DOMAIN in \ Range(f) :
                       \E k \in Range(f) :
                           NearDuplicates(in[k], in[d]) /\ NotAfter(in[k], in[d])

\* three candidates of which exactly one, a near duplicate, was dropped
C8_Witness ==
    /\ request.op = "remove_vertical_close_duplicates"
    /\ Len(request.items) = 3
    /\ Len(response.items) = 2
    /\ \E i, j \in DOMAIN request.items :
           /\ i # j
           /\ request.items[i].x # request.items[j].x
           /\ request.items[i].y # request.items[j].y
           /\ NearDuplicates(request.items[i], request.items[j])

\* ------------------------------------------------------------------------
\* C9  Vertical stack merge.  When the whole input of
\* group_vertical_dimensions is one run (one page, no table candidate, every
\* x within 6 of the first candidate's x, successive y values top to bottom
\* within 20 of each other), the output is one group: its value the members'
\* values joined top to bottom, its y the least y of the run, its x the first
\* candidate's x; a run of one candidate passes through unchanged.
\* ------------------------------------------------------------------------
\* the candidate the pass starts the run from: the first in (page, x, y) order
RunFirst(in) ==
    in[CHOOSE i \in DOMAIN in :
          \A j \in DOMAIN in : ~TupleLess(VertKey(in[j]), VertKey(in[i]))]

\* the orders of the members that go down the page
TopToBottom(in) ==
    {f \in [DOMAIN in -> DOMAIN in] :
        /\ \A i, j \in DOMAIN in : i # j => f[i] # f[j]
        /\ \A i, j \in DOMAIN in : i < j => in[f[i]].y <= in[f[j]].y}

IsOneRun(in) ==
    /\ in # <<>>
    /\ \A i \in DOMAIN in :
          /\ in[i].page = in[1].page
          /\ ~in[i].is_table
          /\ Abs(in[i].x - RunFirst(in).x) <= X_THRESHOLD
    /\ \E f \in TopToBottom(in) :
          \A k \in 1 .. (Len(in) - 1) : in[f[k + 1]].y - in[f[k]].y <= Y_GAP_MAX

C9_VerticalMerge ==
    (request.op = "group_vertical_dimensions" /\ IsOneRun(request.items)) =>
        LET in == request.items
            out == response.items
        IN  IF Len(in) = 1 THEN out = in
            ELSE /\ Len(out) = 1
                 /\ out[1].page = in[1].page
                 /\ out[1].x = RunFirst(in).x
                 /\ \A i \in DOMAIN in : out[1].y <= in[i].y
                 /\ \E f \in TopToBottom(in) :
                        out[1].value = JoinValues([k \in DOMAIN in |-> in[f[k]]])

\* ------------------------------------------------------------------------
\* C10  Horizontal-merge idempotence.  group_close_dimensions applied to its
\* own output gives as many entries, with the same values and anchors.
\* ------------------------------------------------------------------------
C10_Idempotent ==
    request.op = "group_close_dimensions again" =>
        /\ Len(response.items) = Len(request.items)
        /\ Range(response.items) = Range(request.items)

====
